---- MODULE Spec2Model ----
(***************************************************************************)
(* VortexArm: the analytic inverse kinematics of the 3-DOF arm             *)
(* (inverse_kinematics.py: get_point, get_angles) and the SSC-32U servo    *)
(* controller (ssc32u.py: SSC_32U).                                        *)
(*                                                                         *)
(* Numbers.  Python floats are modelled by exact numbers: a rational is a  *)
(* pair <<n, d>> in lowest terms with d > 0, and a value that went through *)
(* math.sqrt is a quadratic surd [p, q, m] = p + q*sqrt(m) with p, q       *)
(* rational and m a squarefree integer (m = 1 and q = 0 for a rational).   *)
(* Angles are kept by their exact cosine and sine, [c, s].  The rounding   *)
(* and the finite range of the float format (overflow and underflow of a   *)
(* power) are outside the model.                                           *)
(***************************************************************************)
EXTENDS Integers, Sequences, FiniteSets, TLC

(***************************************************************************)
(* Exact rational arithmetic.                                              *)
(***************************************************************************)
Abs(n) == IF n < 0 THEN -n ELSE n

RECURSIVE GCD(_, _)
GCD(a, b) == IF b = 0 THEN a ELSE GCD(b, a % b)

Rat(n, d) ==
    LET g == GCD(Abs(n), Abs(d))
        s == IF d < 0 THEN -1 ELSE 1
    IN  <<(s * n) \div g, (s * d) \div g>>

RInt(k) == <<k, 1>>

RZero == <<0, 1>>

ROne == <<1, 1>>

RNeg(a) == <<-a[1], a[2]>>

RAdd(a, b) ==
    LET g == GCD(a[2], b[2])
    IN  Rat(a[1] * (b[2] \div g) + b[1] * (a[2] \div g), (a[2] \div g) * b[2])

RSub(a, b) == RAdd(a, RNeg(b))

RMul(a, b) ==
    IF a[1] = 0 \/ b[1] = 0 THEN RZero
    ELSE LET g1 == GCD(Abs(a[1]), b[2])
             g2 == GCD(Abs(b[1]), a[2])
         IN  <<(a[1] \div g1) * (b[1] \div g2), (a[2] \div g2) * (b[2] \div g1)>>

\* 1/a for a # 0.
RInv(a) == IF a[1] < 0 THEN <<-a[2], -a[1]>> ELSE <<a[2], a[1]>>

\* a/b for b # 0; the callers test the divisor where Python would raise.
RDiv(a, b) == RMul(a, RInv(b))

RSign(a) == IF a[1] > 0 THEN 1 ELSE IF a[1] < 0 THEN -1 ELSE 0

RLt(a, b) ==
    LET g == GCD(a[2], b[2])
    IN  a[1] * (b[2] \div g) < b[1] * (a[2] \div g)

RLe(a, b) == ~RLt(b, a)

RMin(a, b) == IF RLt(b, a) THEN b ELSE a

RMax(a, b) == IF RLt(a, b) THEN b ELSE a

RSq(a) == RMul(a, a)

(***************************************************************************)
(* Quadratic surds p + q*sqrt(m).                                          *)
(***************************************************************************)
RECURSIVE IsqrtIter(_, _, _)
IsqrtIter(n, lo, hi) ==
    IF lo >= hi THEN lo
    ELSE LET mid == (lo + hi + 1) \div 2
         IN  IF mid * mid <= n THEN IsqrtIter(n, mid, hi)
             ELSE IsqrtIter(n, lo, mid - 1)

\* floor(sqrt(n)) for 0 <= n < 2^31.
Isqrt(n) == IsqrtIter(n, 0, IF n < 46340 THEN n ELSE 46340)

\* The largest k with k*k dividing n, n >= 1.
SqPart(n) ==
    LET ks == {k \in 1..Isqrt(n) : n % (k * k) = 0}
    IN  CHOOSE k \in ks : \A j \in ks : j <= k

Q(p, q, m) == IF q = RZero \/ m = 1
              THEN [p |-> IF m = 1 THEN RAdd(p, q) ELSE p, q |-> RZero, m |-> 1]
              ELSE [p |-> p, q |-> q, m |-> m]

QR(r) == [p |-> r, q |-> RZero, m |-> 1]

QInt(k) == QR(RInt(k))

QIsRat(a) == a.q = RZero

\* The radicand two operands share (one of them may be rational).
QRad(a, b) == IF QIsRat(a) THEN b.m ELSE a.m

\* math.sqrt(r) for a rational r >= 0.
QSqrt(r) ==
    IF r[1] = 0 THEN QR(RZero)
    ELSE LET kn == SqPart(r[1])
             kd == SqPart(r[2])
             mn == r[1] \div (kn * kn)
             md == r[2] \div (kd * kd)
         IN  Q(RZero, Rat(kn, kd * md), mn * md)

QNeg(a) == [p |-> RNeg(a.p), q |-> RNeg(a.q), m |-> a.m]

QAdd(a, b) == Q(RAdd(a.p, b.p), RAdd(a.q, b.q), QRad(a, b))

QSub(a, b) == QAdd(a, QNeg(b))

QScale(r, a) == Q(RMul(r, a.p), RMul(r, a.q), a.m)

QMul(a, b) ==
    LET m == QRad(a, b)
    IN  Q(RAdd(RMul(a.p, b.p), RMul(RMul(a.q, b.q), RInt(m))),
          RAdd(RMul(a.p, b.q), RMul(a.q, b.p)), m)

\* The sign of p + q*sqrt(m).
QSign(a) ==
    LET sp == RSign(a.p)
        sq == RSign(a.q)
    IN  IF sq = 0 THEN sp
        ELSE IF sp = 0 \/ sp = sq THEN sq
        ELSE LET p2 == RSq(a.p)
                 q2 == RMul(RSq(a.q), RInt(a.m))
             IN  IF RLt(q2, p2) THEN sp ELSE IF RLt(p2, q2) THEN sq ELSE 0

QIsZero(a) == a.p = RZero /\ a.q = RZero

\* 1/a for a # 0: the conjugate over the norm.
QInv(a) ==
    IF a.q = RZero THEN QR(RInv(a.p))
    ELSE IF a.p = RZero THEN Q(RZero, RInv(RMul(a.q, RInt(a.m))), a.m)
    ELSE LET norm == RSub(RSq(a.p), RMul(RSq(a.q), RInt(a.m)))
         IN  Q(RDiv(a.p, norm), RNeg(RDiv(a.q, norm)), a.m)

QDiv(a, b) == QMul(a, QInv(b))

QLt(a, b) == QSign(QSub(a, b)) < 0

QLe(a, b) == QSign(QSub(a, b)) <= 0

QMin(a, b) == IF QLt(b, a) THEN b ELSE a

QMax(a, b) == IF QLt(a, b) THEN b ELSE a

\* a*a as a rational, for a rational a or a pure surd q*sqrt(m).
QSqR(a) == RAdd(RSq(a.p), RMul(RSq(a.q), RInt(a.m)))

(***************************************************************************)
(* Angles.  An angle of (-pi, pi] is kept by its exact cosine and sine     *)
(* [c, s]; a result of math.acos, in [0, pi], by its cosine [cos]; a       *)
(* result of math.asin, in [-pi/2, pi/2], by its sine [sin].               *)
(***************************************************************************)
Angle(c, s) == [c |-> c, s |-> s]

\* math.pi/2 and -math.pi/2 (line 52).
PiHalf == Angle(QInt(0), QInt(1))

NegPiHalf == Angle(QInt(0), QInt(-1))

\* math.atan2(y, x), y and x each a rational or a pure surd; atan2(0, 0) = 0.
Atan2(y, x) ==
    LET x2 == QSqR(x)
        y2 == QSqR(y)
        h2 == RAdd(x2, y2)
    IN  IF h2 = RZero THEN Angle(QInt(1), QInt(0))
        ELSE Angle(QScale(RInt(QSign(x)), QSqrt(RDiv(x2, h2))),
                   QScale(RInt(QSign(y)), QSqrt(RDiv(y2, h2))))

\* The domain of math.asin and math.acos: outside it they raise ValueError.
TrigDomain(v) == QLe(QInt(-1), v) /\ QLe(v, QInt(1))

\* math.asin(v): the angle in [-pi/2, pi/2] whose sine is v.
Asin(v) == [sin |-> v]

\* math.acos(v): the angle in [0, pi] whose cosine is v.
Acos(v) == [cos |-> v]

\* The literal 0 of "theta2 = 0" (line 58), the angle acos(1).
Theta2Zero == [cos |-> QInt(1)]

\* The literal 0 of "... if d != 0 else 0" (line 61), the angle asin(0).
Theta1Zero == [sin |-> QInt(0)]

\* theta1 + theta2, kept as the pair of its terms.
AngleSum(t1, t2) == [t1 |-> t1, t2 |-> t2]

\* math.degrees and math.radians: a change of unit, kept as a tag.
Degrees(a) == [deg |-> a]

Radians(a) == a.deg

\* What a call does: it returns a value or raises.
Return(v) == [exc |-> "none", val |-> v]

Raise(e) == [exc |-> e, val |-> <<>>]

NoCall == [exc |-> "nocall", val |-> <<>>]

(***************************************************************************)
(* inverse_kinematics.py: get_angles.                                      *)
(***************************************************************************)
\* The tolerance of the reach check, 0.001.
EPS == <<1, 1000>>

\* d = math.sqrt(x**2 + y**2 + (z-base)**2)
Distance(x, y, z, base) ==
    QSqrt(RAdd(RAdd(RSq(x), RSq(y)), RSq(RSub(z, base))))

\* BaseAngle with the sign of y dropped on the axis x = 0.
BaseAngleUnsigned(x, y) ==
    IF x # RZero THEN Atan2(QR(y), QR(x)) ELSE PiHalf

\* The base rotation angle alpha.
BaseAngle(x, y) ==
    IF x # RZero THEN Atan2(QR(y), QR(x))
    ELSE IF RLe(RZero, y) THEN PiHalf ELSE NegPiHalf

\* ReachExtended with >= for >.
ReachExtendedInclusive(d, arm1, arm2) ==
    QLe(QR(RSub(RAdd(arm1, arm2), EPS)), d)

\* d > arm1 + arm2 - 0.001
ReachExtended(d, arm1, arm2) == QLt(QR(RSub(RAdd(arm1, arm2), EPS)), d)

\* Clamp left out.
ClampNone(v) == v

\* max(min(v, 1.0), -1.0)
Clamp(v) == QMax(QMin(v, QInt(1)), QInt(-1))

\* The divisor 2*arm1*d of cos_theta2.
Theta2Divisor(d, arm1) == QScale(RMul(RInt(2), arm1), d)

\* cos_theta2 = (arm1**2 + d**2 - arm2**2)/(2*arm1*d), for a divisor # 0.
CosTheta2(d, arm1, arm2) ==
    QDiv(QR(RSub(RAdd(RSq(arm1), QSqR(d)), RSq(arm2))), Theta2Divisor(d, arm1))

\* cos_gamma = (arm1**2 + arm2**2 - d**2)/(2*arm1*arm2), for a divisor # 0.
CosGamma(d, arm1, arm2) ==
    QR(RDiv(RSub(RAdd(RSq(arm1), RSq(arm2)), QSqR(d)),
            RMul(RInt(2), RMul(arm1, arm2))))

\* theta1 of the law-of-cosines branch: asin((z-base)/d) if d != 0 else 0.
Theta1(d, z, base) ==
    IF ~QIsZero(d) THEN Asin(QDiv(QR(RSub(z, base)), d)) ELSE Theta1Zero

get_angles(x, y, z, base, arm1, arm2) ==
    LET d == Distance(x, y, z, base)
        alpha == BaseAngle(x, y)
        extended == ReachExtended(d, arm1, arm2)
        theta1 == IF extended
                  THEN Atan2(QR(RSub(z, base)), QSqrt(RAdd(RSq(x), RSq(y))))
                  ELSE Theta1(d, z, base)
        theta2 == IF extended THEN Theta2Zero
                  ELSE Acos(Clamp(CosTheta2(d, arm1, arm2)))
        beta == AngleSum(theta1, theta2)
        gamma == Acos(Clamp(CosGamma(d, arm1, arm2)))
    IN  IF ~extended /\ ~QIsZero(d)
           /\ ~TrigDomain(QDiv(QR(RSub(z, base)), d))
        THEN Raise("ValueError")
        ELSE IF ~extended /\ QIsZero(Theta2Divisor(d, arm1))
        THEN Raise("ZeroDivisionError")
        ELSE IF ~extended /\ ~TrigDomain(Clamp(CosTheta2(d, arm1, arm2)))
        THEN Raise("ValueError")
        ELSE IF RMul(arm1, arm2) = RZero
        THEN Raise("ZeroDivisionError")
        ELSE IF ~TrigDomain(Clamp(CosGamma(d, arm1, arm2)))
        THEN Raise("ValueError")
        ELSE Return(<<Degrees(alpha), Degrees(beta), Degrees(gamma)>>)

(***************************************************************************)
(* inverse_kinematics.py: get_point.                                       *)
(***************************************************************************)
\* math.tan(a) for an angle of non-zero cosine and rational tangent.
Tan(a) == QDiv(a.s, a.c).p

\* e = (x**2 + y**2 + z**2 - base**2 + arm1**2 - arm2**2)/2
LinearTerm(x, y, z, base, arm1, arm2) ==
    RDiv(RAdd(RSub(RAdd(RAdd(RSq(x), RSq(y)), RSq(z)), RSq(base)),
              RSub(RSq(arm1), RSq(arm2))), RInt(2))

\* x_y_term = x + y * math.tan(alpha_rad)
XYTerm(x, y, t) == RAdd(x, RMul(y, t))

\* HeightDiffers with the test left out.
HeightAlwaysDiffers(z, base) == TRUE

\* The test of line 15: the quotient e / (z - base) is taken when z != base.
HeightDiffers(z, base) == z # base

\* The coefficients a1, b1, c1 of the quadratic in the elbow height (lines 17-22).
QuadraticA(zb, tt, s) == RAdd(RDiv(RMul(RSq(zb), tt), RSq(s)), ROne)

\* QuadraticB with "+ base" left out.
QuadraticBNoBase(e, zb, tt, s, base) ==
    RMul(RInt(2), RDiv(RMul(RMul(e, zb), tt), RSq(s)))

QuadraticB(e, zb, tt, s, base) ==
    RMul(RInt(2), RAdd(RDiv(RMul(RMul(e, zb), tt), RSq(s)), base))

QuadraticC(e, tt, s, base, arm1) ==
    RSub(RAdd(RDiv(RMul(RSq(e), tt), RSq(s)), RSq(base)), RSq(arm1))

\* discriminant = b1**2 - 4 * a1 * c1
Discriminant(a1, b1, c1) == RSub(RSq(b1), RMul(RInt(4), RMul(a1, c1)))

\* The test of line 26.
NoSolution(disc) == RLt(disc, RZero)

\* FallbackHeight with "base +" left out.
FallbackHeightNoBase(z, base, arm1, dist) ==
    QDiv(QR(RMul(arm1, RSub(z, base))), dist)

\* Line 28: c = base + arm1 * (z - base) / dist, for dist # 0.
FallbackHeight(z, base, arm1, dist) ==
    QAdd(QR(base), QDiv(QR(RMul(arm1, RSub(z, base))), dist))

\* Lines 31-32: c = (b1 + math.sqrt(discriminant)) / (2 * a1), for a1 # 0.
ElbowUpHeight(a1, b1, disc) ==
    QScale(RInv(RMul(RInt(2), a1)), QAdd(QR(b1), QSqrt(disc)))

\* Line 34: a = (e - c * z_base) / x_y_term, for x_y_term # 0.
BackSubstitute(e, c, zb, s) == QScale(RInv(s), QSub(QR(e), QScale(zb, c)))

get_point(x, y, z, base, arm1, arm2, alpha_rad) ==
    LET e == LinearTerm(x, y, z, base, arm1, arm2)
    IN  IF x # RZero \/ y # RZero
        THEN LET t == Tan(alpha_rad)
                 s == XYTerm(x, y, t)
                 zb == RSub(z, base)
                 tt == RAdd(ROne, RSq(t))
                 a1 == QuadraticA(zb, tt, s)
                 b1 == QuadraticB(e, zb, tt, s, base)
                 c1 == QuadraticC(e, tt, s, base, arm1)
                 disc == Discriminant(a1, b1, c1)
                 d2 == RAdd(RAdd(RSq(x), RSq(y)), RSq(zb))
                 c == IF NoSolution(disc)
                      THEN FallbackHeight(z, base, arm1, QSqrt(d2))
                      ELSE ElbowUpHeight(a1, b1, disc)
                 a == BackSubstitute(e, c, zb, s)
             IN  IF s = RZero
                 THEN IF HeightDiffers(z, base)
                      THEN IF zb = RZero THEN Raise("ZeroDivisionError")
                           ELSE Return(<<QInt(0), QInt(0),
                                         QR(RAdd(base, RDiv(e, zb)))>>)
                      ELSE Return(<<QInt(0), QInt(0), QR(RAdd(base, arm1))>>)
                 ELSE IF RSq(s) = RZero THEN Raise("ZeroDivisionError")
                 ELSE IF NoSolution(disc) /\ RLt(d2, RZero) THEN Raise("ValueError")
                 ELSE IF NoSolution(disc) /\ d2 = RZero
                 THEN Raise("ZeroDivisionError")
                 ELSE IF ~NoSolution(disc) /\ RLt(disc, RZero)
                 THEN Raise("ValueError")
                 ELSE IF ~NoSolution(disc) /\ a1 = RZero
                 THEN Raise("ZeroDivisionError")
                 ELSE Return(<<a, QScale(t, a), c>>)
        ELSE Return(<<QInt(0), QInt(0), QR(RMin(RAdd(base, arm1), z))>>)

(***************************************************************************)
(* The inputs the solver is applied to.                                    *)
(***************************************************************************)
\* Grid targets: x, y in -MaxXY..MaxXY and z in 0..MaxZ.
MaxXY == 2

MaxZ == 7

\* The arm of the simulator, robot_params = (100, 204, 165).
SimParams == <<RInt(100), RInt(204), RInt(165)>>

\* Geometries (base, arm1, arm2): upper arm shorter, longer, equal to the forearm.
Geometries ==
    {<<RInt(2), RInt(3), RInt(2)>>, <<RInt(1), RInt(2), RInt(3)>>, SimParams}

GridTargets ==
    {<<RInt(x), RInt(y), RInt(z)>> : x \in -MaxXY..MaxXY, y \in -MaxXY..MaxXY,
                                       z \in 0..MaxZ}

\* The factor of the far target: 10 times the maximum reach.
FarFactor == 10

\* Targets on the vertical axis through the base joint: the base joint itself,
\* the maximum reach and FarFactor times the reach.
AxisTargets(g) ==
    LET reach == RAdd(g[2], g[3])
    IN  {<<RZero, RZero, g[1]>>,
         <<RZero, RZero, RAdd(g[1], reach)>>,
         <<RZero, RZero, RAdd(g[1], RMul(RInt(FarFactor), reach))>>}

\* Targets at the reach threshold d = arm1 + arm2 - 0.001 exactly, and level
\* with the base joint at the maximum reach and far beyond it.
EdgeTargets(g) ==
    LET reach == RAdd(g[2], g[3])
    IN  {<<RZero, RZero, RAdd(g[1], RSub(reach, EPS))>>,
         <<RMul(RInt(FarFactor), reach), RZero, g[1]>>,
         <<RZero, RNeg(reach), g[1]>>}

\* The axis-aligned target of the simulator's arm, z = 250.
AxisTarget == <<RZero, RZero, RInt(250)>>

Targets(g) ==
    AxisTargets(g)
    \cup (IF g = SimParams THEN {AxisTarget} ELSE GridTargets \cup EdgeTargets(g))

\* Base angles handed to get_point: atan2(v, u) for small u # 0 and v.
TanRange == 2

BaseAngles ==
    {Atan2(QInt(v), QInt(u)) : u \in {-2, -1, 1, 2}, v \in -TanRange..TanRange}

(***************************************************************************)
(* ssc32u.py: the text of a command.  A command is a sequence of tokens:   *)
(* "#<ch>P<pw>" is [k |-> "#P", a |-> ch, b |-> pw], "S<spd>" and          *)
(* "T<time>" carry their number in a, "\r" is the token CR, and VER stands *)
(* for any other text.                                                     *)
(***************************************************************************)
Tok(k, a, b) == [k |-> k, a |-> a, b |-> b]

CR == Tok("CR", 0, 0)

VER == Tok("VER", 0, 0)

\* command.endswith('\r')
EndsWithCR(command) == Len(command) > 0 /\ command[Len(command)] = CR

\* WithCR without the test: the carriage return is always appended.
AlwaysCR(command) == Append(command, CR)

\* if not command.endswith('\r'): command += '\r'
WithCR(command) == IF ~EndsWithCR(command) THEN Append(command, CR) ELSE command

\* self.min_pwm and self.max_pwm
MinPwm == 600

MaxPwm == 2400

\* The last servo channel.
LastChannel == 31

\* len(positions) > 32
MaxServos == 32

\* channel < 0 or channel > 31
ChannelBad(channel) == channel < 0 \/ channel > LastChannel

\* position < self.min_pwm or position > self.max_pwm
PositionBad(position) == position < MinPwm \/ position > MaxPwm

\* The optional suffix of a move: "S<speed>" if speed is not None, then
\* "T<time>" if time is not None.  None is <<>>, a number n is <<n>>.
Suffix(speed, time) ==
    (IF speed # <<>> THEN <<Tok("S", speed[1], 0)>> ELSE <<>>)
    \o (IF time # <<>> THEN <<Tok("T", time[1], 0)>> ELSE <<>>)

\* FirstBad looking at the first entry only.
FirstBadHead(positions) ==
    IF Len(positions) > 0
       /\ (ChannelBad(positions[1][1]) \/ PositionBad(positions[1][2]))
    THEN 1 ELSE 0

\* The loop of move_multiple_servos up to its first bad entry: the index of
\* that entry, or 0 when every entry passes.
FirstBad(positions) ==
    LET bad == {i \in 1..Len(positions) :
                   ChannelBad(positions[i][1]) \/ PositionBad(positions[i][2])}
    IN  IF bad = {} THEN 0 ELSE CHOOSE i \in bad : \A j \in bad : i <= j

\* command += f"#{channel}P{position}" for every entry.
ServoText(positions) ==
    [i \in 1..Len(positions) |-> Tok("#P", positions[i][1], positions[i][2])]

(***************************************************************************)
(* The inputs of the controller's operations.                              *)
(***************************************************************************)
\* (channel, position) pairs: both ends of both ranges, and one step outside.
Entries ==
    {<<0, MinPwm>>, <<LastChannel, MaxPwm>>, <<-1, MinPwm>>,
     <<LastChannel + 1, MaxPwm>>, <<0, MinPwm - 1>>, <<LastChannel, MaxPwm + 1>>}

\* (speed, time): both None, or both given.
Timings == {<<<<>>, <<>>>>, <<<<100>>, <<500>>>>}

\* The lists of entries: short ones up to MaxList entries, and lists at and
\* one past the limit of 32.
MaxList == 2

ListLengths == (0..MaxList) \cup {MaxServos, MaxServos + 1}

\* A list of n valid entries, its k-th replaced by bad when k > 0.
Fill(n, k, bad) ==
    [i \in 1..n |-> IF i = k THEN bad
                    ELSE <<(i - 1) % (LastChannel + 1), MinPwm>>]

\* Every entry valid (k = 0), or the first or the last entry out of range.
PositionLists ==
    {Fill(n, k, bad) : n \in ListLengths, k \in {0, 1, MaxList, MaxServos},
                       bad \in {<<LastChannel + 1, MaxPwm>>, <<0, MinPwm - 1>>}}

\* Commands handed to send_command directly.
RawCommands == {<<>>, <<VER>>, <<VER, CR>>, <<VER, CR, CR>>}

\* The number of writes the port counts is bounded.
MaxWrites == 2

VARIABLES robot_params, target, angles, mirror, point,
          serial, connected, last_command, last_command_time,
          port, ret

ikvars == <<robot_params, target, angles, mirror, point>>

sscvars == <<serial, connected, last_command, last_command_time,
             port, ret>>

vars == <<ikvars, sscvars>>

\* self.serial: None, or the handle serial.Serial(...) returned.
None == "None"

Handle == "Serial"

\* last_command = None
NoCommand == <<Tok("None", 0, 0)>>

\* SSC_32U.__init__
SSCInit ==
    /\ serial = None
    /\ connected = FALSE
    /\ last_command = NoCommand
    /\ last_command_time = 0
    /\ port = [n |-> 0, data |-> <<>>, op |-> "none"]
    /\ ret = [op |-> "init", arg |-> <<>>, exc |-> "none", val |-> FALSE,
              io |-> "none"]

\* time.time(): the clock ticks with every write.
Clock == port.n + 1

\* What an operation leaves: its name, the text its arguments spell, the
\* exception it raised, the value it returned, and what became of the write.
Outcome(op, arg, exc, val, io) ==
    [op |-> op, arg |-> arg, exc |-> exc, val |-> val, io |-> io]

\* SSC_32U.connect: serial.Serial(...) opens the port (ok) or raises.
Connect ==
    /\ \E ok \in BOOLEAN :
          /\ IF ok
             THEN serial' = Handle /\ connected' = TRUE
             ELSE serial' = None /\ connected' = FALSE
          /\ ret' = Outcome("connect", <<>>, "none", ok, "none")
    /\ UNCHANGED <<last_command, last_command_time, port, ikvars>>

\* SSC_32U.disconnect
Disconnect ==
    /\ IF serial # None
       THEN serial' = None /\ connected' = FALSE
       ELSE UNCHANGED <<serial, connected>>
    /\ ret' = Outcome("disconnect", <<>>, "none", FALSE, "none")
    /\ UNCHANGED <<last_command, last_command_time, port, ikvars>>

\* if not self.serial: return False
NoHandle == serial = None

\* The body of send_command(command), called by operation op whose arguments
\* spell arg; fail: self.serial.write raises.
Send(op, arg, command, fail) ==
    IF NoHandle
    THEN /\ ret' = Outcome(op, arg, "none", FALSE, "none")
         /\ UNCHANGED <<serial, connected, last_command, last_command_time, port>>
    ELSE IF fail
    THEN /\ ret' = Outcome(op, arg, "none", FALSE, "fail")
         /\ UNCHANGED <<serial, connected, last_command, last_command_time, port>>
    ELSE /\ port.n < MaxWrites
         /\ port' = [n |-> port.n + 1, data |-> WithCR(command), op |-> op]
         /\ last_command' = WithCR(command)
         /\ last_command_time' = Clock
         /\ ret' = Outcome(op, arg, "none", TRUE, "ok")
         /\ UNCHANGED <<serial, connected>>

\* An operation that raises changes nothing.
Raises(op, arg, exc) ==
    /\ ret' = Outcome(op, arg, exc, FALSE, "none")
    /\ UNCHANGED <<serial, connected, last_command, last_command_time, port>>

\* SSC_32U.send_command
SendCommand ==
    /\ \E command \in RawCommands, fail \in BOOLEAN :
          Send("send_command", command, command, fail)
    /\ UNCHANGED ikvars

\* SSC_32U.move_servo
MoveServo ==
    /\ \E e \in Entries, t \in Timings, fail \in BOOLEAN :
          LET command == <<Tok("#P", e[1], e[2])>> \o Suffix(t[1], t[2])
          IN  IF ChannelBad(e[1]) \/ PositionBad(e[2])
              THEN Raises("move_servo", command, "ValueError")
              ELSE Send("move_servo", command, command, fail)
    /\ UNCHANGED ikvars

\* SSC_32U.move_multiple_servos
MoveMultipleServos ==
    /\ \E positions \in PositionLists, t \in Timings, fail \in BOOLEAN :
          LET command == ServoText(positions) \o Suffix(t[1], t[2])
          IN  IF Len(positions) > MaxServos \/ FirstBad(positions) # 0
              THEN Raises("move_multiple_servos", command, "ValueError")
              ELSE Send("move_multiple_servos", command, command, fail)
    /\ UNCHANGED ikvars

\* The solver's variables while the controller runs: no call made.
IKIdle ==
    /\ robot_params = SimParams
    /\ target = AxisTarget
    /\ angles = NoCall
    /\ mirror = NoCall
    /\ point = [alpha |-> Angle(QInt(1), QInt(0)), res |-> NoCall]

Init == SSCInit /\ IKIdle

Next == Connect \/ Disconnect \/ SendCommand \/ MoveServo \/ MoveMultipleServos

Spec == Init /\ [][Next]_vars

(***************************************************************************)
(* The solver applied to its inputs.  The two functions are stateless, so  *)
(* a behaviour applies each of them to its input once.                     *)
(***************************************************************************)
IKInit ==
    /\ robot_params \in Geometries
    /\ target \in Targets(robot_params)
    /\ angles = NoCall
    /\ mirror = NoCall
    /\ point = [alpha |-> Angle(QInt(1), QInt(0)), res |-> NoCall]
    /\ SSCInit

\* get_angles(x, y, z, base, arm1, arm2) on the target.
GetAngles ==
    /\ angles = NoCall
    /\ angles' = get_angles(target[1], target[2], target[3],
                            robot_params[1], robot_params[2], robot_params[3])
    /\ UNCHANGED <<robot_params, target, mirror, point, sscvars>>

\* get_angles on the target reflected through the vertical axis.
GetAnglesMirror ==
    /\ mirror = NoCall
    /\ mirror' = get_angles(RNeg(target[1]), RNeg(target[2]), target[3],
                            robot_params[1], robot_params[2], robot_params[3])
    /\ UNCHANGED <<robot_params, target, angles, point, sscvars>>

\* get_point(x, y, z, base, arm1, arm2, alpha_rad) on the target.
GetPoint ==
    /\ point.res = NoCall
    /\ \E alpha \in BaseAngles :
          point' = [alpha |-> alpha,
                    res |-> get_point(target[1], target[2], target[3],
                                      robot_params[1], robot_params[2],
                                      robot_params[3], alpha)]
    /\ UNCHANGED <<robot_params, target, angles, mirror, sscvars>>

AnglesNext == GetAngles \/ GetAnglesMirror

AnglesSpec == IKInit /\ [][AnglesNext]_vars

PointNext == GetPoint

PointSpec == IKInit /\ [][PointNext]_vars

(***************************************************************************)
(* The claims about get_angles, under AnglesSpec.                          *)
(***************************************************************************)
TX == target[1]

TY == target[2]

TZ == target[3]

Base == robot_params[1]

Arm1 == robot_params[2]

Arm2 == robot_params[3]

\* The maximum reach, and the distance d of the target from the base joint.
Reach == RAdd(Arm1, Arm2)

TargetDist == QSqrt(RAdd(RAdd(RSq(TX), RSq(TY)), RSq(RSub(TZ, Base))))

AtOrBeyond(t) == QLe(QR(t), TargetDist)

Beyond(t) == QLt(QR(t), TargetDist)

Called(r) == r.exc # "nocall"

Returned(r) == r.exc = "none" /\ Len(r.val) = 3

\* An elbow of 0 degrees (links folded) and of 180 degrees (links in line).
ElbowFolded == Degrees(Acos(QInt(1)))

ElbowStraight == Degrees(Acos(QInt(-1)))

\* C1: get_angles returns a triple and never raises, whatever the target
\* (the base joint itself, d = 0, and targets beyond the reach included).
C1_NeverRaises == Called(angles) => Returned(angles)

ExpectedBase(x, y) ==
    Degrees(IF x # RZero THEN Atan2(QR(y), QR(x))
            ELSE IF y[1] >= 0 THEN Angle(QInt(0), QInt(1))
            ELSE Angle(QInt(0), QInt(-1)))

\* C5: every call of get_angles yields the base angle atan2(y, x) for x # 0
\* and +90 or -90 degrees, by the sign of y, for x = 0; on the vertical axis
\* (x = y = 0) it yields 90 degrees, whatever z and the geometry.
C5_BaseAngle ==
    Called(angles) => Returned(angles) /\ angles.val[1] = ExpectedBase(TX, TY)

\* Two angles in degrees that differ by exactly 180.
Opposite(a, b) == b.deg.c = QNeg(a.deg.c) /\ b.deg.s = QNeg(a.deg.s)

\* C6 as stated: whenever get_angles returns for (x, y, z) and for (-x, -y, z),
\* the base angles differ by exactly 180 degrees and the shoulder and elbow
\* angles are identical, x = y = 0 included.
C6_Mirror ==
    Returned(angles) /\ Returned(mirror)
        => /\ Opposite(angles.val[1], mirror.val[1])
           /\ angles.val[2] = mirror.val[2]
           /\ angles.val[3] = mirror.val[3]

\* C6 amended: for every target off the vertical axis (x or y non-zero) both
\* calls return, the base angles differ by exactly 180 degrees and the
\* shoulder and elbow angles are identical; on the axis (x = y = 0) the two
\* calls are one and the same, so their outcomes, base angle included, agree.
C6_MirrorOffAxis ==
    Called(angles) /\ Called(mirror)
        => IF TX # RZero \/ TY # RZero
           THEN /\ Returned(angles) /\ Returned(mirror)
                /\ Opposite(angles.val[1], mirror.val[1])
                /\ angles.val[2] = mirror.val[2]
                /\ angles.val[3] = mirror.val[3]
           ELSE mirror = angles

\* C6: both calls made for a target on the line x = 0 below the axis y = 0.
C6_Witness ==
    /\ Returned(angles) /\ Returned(mirror)
    /\ TX = RZero /\ TY[1] < 0
    /\ Opposite(angles.val[1], mirror.val[1])

\* The shoulder angle of the extended arm: atan2(z - base, sqrt(x^2 + y^2)),
\* nothing added.
ShoulderExtended ==
    Degrees(AngleSum(Atan2(QR(RSub(TZ, Base)),
                           QSqrt(RAdd(RSq(TX), RSq(TY)))),
                     Acos(QInt(1))))

\* The shoulder angle theta1 + theta2 of the law of cosines, for d # 0:
\* theta1 = asin((z - base)/d) and theta2 = acos of the ratio
\* (arm1^2 + d^2 - arm2^2)/(2 arm1 d) clamped to [-1, 1].
ShoulderCosines ==
    LET d == TargetDist
        ratio == QDiv(QR(RSub(RAdd(RSq(Arm1), QSqR(d)), RSq(Arm2))),
                      QScale(RMul(RInt(2), Arm1), d))
        clamped == IF QLt(QInt(1), ratio) THEN QInt(1)
                   ELSE IF QLt(ratio, QInt(-1)) THEN QInt(-1) ELSE ratio
    IN  Degrees(AngleSum(Asin(QDiv(QR(RSub(TZ, Base)), d)), Acos(clamped)))

\* C7 as stated: a call that returns took the extended branch exactly when
\* d >= arm1 + arm2 - 0.001, equality included: then the shoulder angle is the
\* atan2 alone, and below the threshold it is theta1 + theta2.
C7_ThresholdInclusive ==
    Returned(angles)
        => IF AtOrBeyond(RSub(Reach, EPS))
           THEN angles.val[2] = ShoulderExtended
           ELSE angles.val[2] = ShoulderCosines

\* C7 amended: get_angles takes the extended branch exactly when
\* d > arm1 + arm2 - 0.001, strictly: then it returns the atan2 alone as the
\* shoulder angle; for 0 < d <= arm1 + arm2 - 0.001, equality included, it
\* returns theta1 + theta2; and for d = 0 below the threshold it returns
\* nothing, the division by 2 arm1 d raising ZeroDivisionError.
C7_ThresholdStrict ==
    Called(angles)
        => IF Beyond(RSub(Reach, EPS))
           THEN Returned(angles) /\ angles.val[2] = ShoulderExtended
           ELSE IF QIsZero(TargetDist)
           THEN angles.exc = "ZeroDivisionError"
           ELSE Returned(angles) /\ angles.val[2] = ShoulderCosines

\* C7: a call on a target whose distance is the threshold exactly.
C7_Witness ==
    /\ Returned(angles)
    /\ TargetDist = QR(RSub(Reach, EPS))
    /\ angles.val[2] = ShoulderCosines
    /\ angles.val[2] # ShoulderExtended

(***************************************************************************)
(* The claims about get_point, under PointSpec.                            *)
(***************************************************************************)
OffAxis == TX # RZero \/ TY # RZero

\* tan(alpha_rad) and x + y*tan(alpha_rad) of the call made.
PointTan == Tan(point.alpha)

PointXY == RAdd(TX, RMul(TY, PointTan))

\* e, the right-hand side of the linear relation the two spheres leave.
PointE ==
    RDiv(RAdd(RSub(RAdd(RAdd(RSq(TX), RSq(TY)), RSq(TZ)), RSq(Base)),
              RSub(RSq(Arm1), RSq(Arm2))), RInt(2))

\* The discriminant b1^2 - 4 a1 c1 of the call made, for x + y*tan # 0.
PointDisc ==
    LET zb == RSub(TZ, Base)
        tt == RAdd(ROne, RSq(PointTan))
    IN  Discriminant(QuadraticA(zb, tt, PointXY),
                     QuadraticB(PointE, zb, tt, PointXY, Base),
                     QuadraticC(PointE, tt, PointXY, Base, Arm1))

QSq(a) == QMul(a, a)

\* |elbow - base joint|^2 and |elbow - target|^2 of the elbow returned.
ElbowToBase2 ==
    LET v == point.res.val
    IN  QAdd(QAdd(QSq(v[1]), QSq(v[2])), QSq(QSub(v[3], QR(Base))))

ElbowToTarget2 ==
    LET v == point.res.val
    IN  QAdd(QAdd(QSq(QSub(v[1], QR(TX))), QSq(QSub(v[2], QR(TY)))),
             QSq(QSub(v[3], QR(TZ))))

\* |arm1 - arm2| <= d <= arm1 + arm2
Reachable ==
    LET d2 == RAdd(RAdd(RSq(TX), RSq(TY)), RSq(RSub(TZ, Base)))
    IN  RLe(RSq(RSub(Arm1, Arm2)), d2) /\ RLe(d2, RSq(Reach))

\* The base angle handed to get_point is that of the target, atan2(y, x).
Consistent == point.alpha = Atan2(QR(TY), QR(TX))

\* C4: for a reachable target off the vertical axis and the base angle
\* atan2(y, x) of the target, the elbow returned lies on both spheres:
\* a^2 + b^2 + (c - base)^2 = arm1^2 and (a-x)^2 + (b-y)^2 + (c-z)^2 = arm2^2.
C4_OnBothSpheres ==
    Called(point.res) /\ OffAxis /\ Reachable /\ Consistent
        => /\ Returned(point.res)
           /\ ElbowToBase2 = QR(RSq(Arm1))
           /\ ElbowToTarget2 = QR(RSq(Arm2))

\* C4: such a call returned, with an elbow of irrational coordinates.
C4_Witness ==
    /\ Returned(point.res) /\ OffAxis /\ Reachable /\ Consistent
    /\ ~QIsRat(point.res.val[3])
    /\ ElbowToBase2 = QR(RSq(Arm1))

\* The branch of the negative discriminant: off the axis, x + y*tan # 0.
FallbackBranch ==
    /\ Called(point.res) /\ OffAxis
    /\ PointXY # RZero
    /\ RLt(PointDisc, RZero)

\* The point at distance arm1 along the line from the base joint to the target,
\* coordinate by coordinate.
OnLine(k) ==
    LET joint == <<RZero, RZero, Base>>
    IN  QAdd(QR(joint[k]),
             QDiv(QR(RMul(Arm1, RSub(target[k], joint[k]))), TargetDist))

\* C8 as stated: in the branch of the negative discriminant all three
\* coordinates of the elbow are those of the point at fractional distance
\* arm1/d along the line from the base joint to the target.
C8_AllOnLine ==
    FallbackBranch
        => /\ Returned(point.res)
           /\ \A k \in 1..3 : point.res.val[k] = OnLine(k)

\* C8 amended: in that branch only the height c of the elbow is that of the
\* point on the line, c = base + (arm1/d)(z - base); a and b come from the
\* back-substitution: a (x + y tan(alpha)) + c (z - base) = e, b = a tan(alpha).
C8_HeightOnLine ==
    FallbackBranch
        => /\ Returned(point.res)
           /\ point.res.val[3] = OnLine(3)
           /\ QAdd(QScale(PointXY, point.res.val[1]),
                   QScale(RSub(TZ, Base), point.res.val[3])) = QR(PointE)
           /\ point.res.val[2] = QScale(PointTan, point.res.val[1])

\* C8: the branch was taken and the elbow returned is off the line.
C8_Witness ==
    /\ FallbackBranch /\ Returned(point.res)
    /\ point.res.val[3] = OnLine(3)
    /\ point.res.val[1] # OnLine(1)

(***************************************************************************)
(* The claims about the controller, under Spec.                            *)
(***************************************************************************)
Moves == {"move_servo", "move_multiple_servos"}

\* The "#<ch>P<pw>" groups of a text.
Groups(text) == {i \in 1..Len(text) : text[i].k = "#P"}

GroupInRange(tok) ==
    /\ tok.a >= 0 /\ tok.a <= 31
    /\ tok.b >= 600 /\ tok.b <= 2400

\* What the port last received from a move names only channels 0..31 and
\* pulse widths 600..2400.
WrittenInRange ==
    port.op \in Moves => \A i \in Groups(port.data) : GroupInRange(port.data[i])

\* The call whose outcome r is had an out-of-range entry, or more than 32.
BadCall(r) ==
    /\ r.op \in Moves
    /\ \/ \E i \in Groups(r.arg) : ~GroupInRange(r.arg[i])
       \/ Cardinality(Groups(r.arg)) > 32

\* A move with a bad argument raises ValueError and leaves the port as it was.
BadCallRejected ==
    BadCall(ret') => ret'.exc = "ValueError" /\ port' = port

RECURSIVE StripCR(_)
StripCR(text) ==
    IF EndsWithCR(text) THEN StripCR(SubSeq(text, 1, Len(text) - 1)) ELSE text

HandleIffConnected == connected <=> serial # None

SendReturnedTrue == ret.op = "send_command" /\ ret.val = TRUE

\* send_command without a handle, or with a failing write, returns False and
\* leaves last_command and last_command_time as they were.
FailedSendKeeps ==
    ret'.op = "send_command" /\ (serial = None \/ ret'.io = "fail")
        => /\ ret'.val = FALSE
           /\ last_command' = last_command
           /\ last_command_time' = last_command_time

\* C10 as stated: connected is True exactly when a handle is held;
\* send_command returns True only if the command, terminated by exactly one
\* carriage return, was written; without a handle or on a failed write it
\* returns False and leaves last_command and last_command_time unchanged.
C10_ExactlyOneCR ==
    /\ [](/\ HandleIffConnected
          /\ SendReturnedTrue
                => /\ port.op = "send_command"
                   /\ port.data = Append(StripCR(ret.arg), CR))
    /\ [][FailedSendKeeps]_vars

\* C10 amended: what send_command writes when it returns True is the command
\* itself if it already ends in a carriage return, and the command followed
\* by one carriage return otherwise, so that a command ending in two carriage
\* returns is written with both; the rest as stated.
C10_EndsInCR ==
    /\ [](/\ HandleIffConnected
          /\ SendReturnedTrue
                => /\ port.op = "send_command"
                   /\ EndsWithCR(port.data)
                   /\ port.data = IF EndsWithCR(ret.arg) THEN ret.arg
                                  ELSE Append(ret.arg, CR)
                   /\ last_command = port.data)
    /\ [][FailedSendKeeps]_vars

\* C10: send_command returned True for a command ending in two carriage
\* returns, and the port received both.
C10_Witness ==
    /\ SendReturnedTrue /\ connected
    /\ ret.arg = <<VER, CR, CR>>
    /\ port.data = <<VER, CR, CR>>

====
